---- MODULE Spec2Model ----
(***************************************************************************)
(* Model of the bizclaw local inference engine (crates/bizclaw-brain,      *)
(* BrainEngine) and of the gateway WebSocket handler                       *)
(* (crates/bizclaw-gateway, handle_socket).                                *)
(*                                                                         *)
(* The brain crate's sub-modules (mmap, model, tokenizer, kv_cache,        *)
(* sampler, grammar) are not part of the sources at hand; what the engine  *)
(* calls in them is modelled from the design document and marked so.       *)
(***************************************************************************)
EXTENDS Integers, Sequences, FiniteSets, TLC

VARIABLES engine, load_ret, gen, kept, ws, sent, chats, tg, dc, tg_log, chan_ret

brainVars == <<engine, load_ret, gen, kept>>

wsVars == <<ws, sent, chats>>

chanVars == <<tg, dc, tg_log, chan_ret>>

vars == <<engine, load_ret, gen, kept, ws, sent, chats, tg, dc, tg_log, chan_ret>>

-----------------------------------------------------------------------------
(* Bounds of the model.                                                    *)

\* largest max_tokens a caller passes / configures
MaxTokens == 2
\* longest prompt, in "{}" pairs
MaxPromptPairs == 1
\* context length of the small model files
SmallSeqLen == 1
\* client frames one WebSocket connection receives
MaxFrames == 2
\* most words in the content of a chat message
MaxWords == 1
\* width in bits of update ids, scaled down from the 64 of i64
IdBits == 3
\* most updates in one getUpdates batch
MaxBatch == 2

\* callers of generate on the one engine; caller 2 is active only in
\* the specification of concurrent generations
Gens == {1, 2}

-----------------------------------------------------------------------------
(* Tokenizer (tokenizer::BpeTokenizer).                                    *)

UnkId == 0
BosId == 1
EosId == 2
VocabSize == 6

Chars == {"{", "}"}

\* byte-level pre-tokenization: one id per character
ByteId(c) == IF c = "{" THEN 3 ELSE IF c = "}" THEN 4 ELSE UnkId

\* the single ranked merge rule of the file's tokenizer: "{" "}" -> "{}"
MergedId == 5

RECURSIVE ApplyMerges(_)
ApplyMerges(ids) ==
    IF Len(ids) < 2 THEN ids
    ELSE IF ids[1] = 3 /\ ids[2] = 4
         THEN <<MergedId>> \o ApplyMerges(SubSeq(ids, 3, Len(ids)))
         ELSE <<ids[1]>> \o ApplyMerges(Tail(ids))

\* BpeTokenizer::from_gguf: fails when the metadata has no tokenizer section
BpeTokenizer_from_gguf(file) ==
    IF file.tokenizer_section
    THEN [ok |-> TRUE,  tok |-> [bos_id |-> BosId, eos_id |-> EosId, merges |-> TRUE]]
    ELSE [ok |-> FALSE, tok |-> [bos_id |-> BosId, eos_id |-> EosId, merges |-> FALSE]]

\* BpeTokenizer::fallback: byte-level, no merge rules
BpeTokenizer_fallback == [bos_id |-> BosId, eos_id |-> EosId, merges |-> FALSE]

encode(tok, prompt) ==
    LET bytes == [i \in 1..Len(prompt) |-> ByteId(prompt[i])]
    IN  IF tok.merges THEN ApplyMerges(bytes) ELSE bytes

TokenText(id) ==
    IF id = 3 THEN <<"{">>
    ELSE IF id = 4 THEN <<"}">>
    ELSE IF id = MergedId THEN <<"{", "}">>
    ELSE IF id = UnkId THEN <<"?">>
    ELSE <<>>

RECURSIVE decode(_)
decode(ids) == IF ids = <<>> THEN <<>> ELSE TokenText(Head(ids)) \o decode(Tail(ids))

-----------------------------------------------------------------------------
(* Model files, MmapModel::load and ModelParams::from_gguf.                *)

File(dir, fault, n_heads, max_seq_len, tokenizer_section) ==
    [dir |-> dir, name |-> "m.gguf", fault |-> fault, size_mb |-> 1,
     n_layers |-> 1, n_heads |-> n_heads, n_kv_heads |-> 2,
     max_seq_len |-> max_seq_len, tokenizer_section |-> tokenizer_section]

Files ==
    { File("missing",  "IoError",     4, SmallSeqLen, TRUE),
      File("badmagic", "FormatError", 4, SmallSeqLen, TRUE),
      File("full",     "None",        4, SmallSeqLen, TRUE),
      File("stripped", "None",        4, SmallSeqLen, FALSE),
      File("odd",      "None",        3, SmallSeqLen + MaxTokens, TRUE) }

\* MmapModel::load(path)?: the error of opening, mapping or parsing, or "None"
MmapModel_load(file) == file.fault

\* ModelParams::from_gguf: infallible, copies the hyperparameters
ModelParams_from_gguf(file) ==
    [n_layers |-> file.n_layers, n_heads |-> file.n_heads,
     n_kv_heads |-> file.n_kv_heads, max_seq_len |-> file.max_seq_len,
     vocab_size |-> VocabSize]

-----------------------------------------------------------------------------
(* KV cache and sampler (kv_cache::KvCache, sampler::Sampler).             *)

\* KvCache::new: state Empty, cursor = 0
KvCache_new(n_layers, max_seq_len, n_kv_heads) ==
    [cursor |-> 0, max_seq_len |-> max_seq_len]

\* the seeded pseudo-random source of the sampler: a full-period LCG
Seed == 0
RngMod == 8
RngNext(r) == (5 * r + 3) % RngMod

Sampler_new == [rng |-> Seed]

\* Sampler::sample: repetition penalty, temperature, top-k and top-p leave
\* the candidates with the highest logit; one of them is drawn with the
\* random source, which advances.
sample(s, logits, history) ==
    LET best == {i \in DOMAIN logits : \A j \in DOMAIN logits : logits[j] <= logits[i]}
        draw == RngNext(s.rng)
        k    == draw % Cardinality(best)
    IN  [token   |-> CHOOSE i \in best : Cardinality({j \in best : j < i}) = k,
         sampler |-> [rng |-> draw]]

-----------------------------------------------------------------------------
(* Gateway WebSocket handler (handle_socket).                              *)

NoRequest == <<"", 0>>

\* a handler that gives every request the id of the first
RequestId_mut(counter) == <<"req_", 1>>

\* format!("req_{request_counter}")
RequestId(counter) == <<"req_", counter>>

\* tokens of "Hello! I'm BizClaw, your AI assistant."
HelloTokens == 6
\* tokens of "Tôi đã nhận được tin nhắn với {} từ. Hệ thống đang hoạt động."
ReplyTokens == 14

\* response_text.split_whitespace().count() for a content of `words` words
ResponseTokens(words) == IF words = 0 THEN HelloTokens ELSE ReplyTokens

Msg(type, request_id, index, total) ==
    [type |-> type, request_id |-> request_id, index |-> index, total |-> total]

\* a handler that numbers the chunks from 1
ChunkMsg_mut(request_id, i) == Msg("chat_chunk", request_id, i + 1, 0)

ChunkMsg(request_id, i) == Msg("chat_chunk", request_id, i, 0)

\* a handler that streams unless stream is false
StreamFlag_mut(v) == v # "false"

\* json["stream"].as_bool().unwrap_or(false)
StreamFlag(v) == v = "true"

\* a handler that takes a message without a type for a chat message
MsgType_mut(v) == IF v = "missing" THEN "chat" ELSE v

\* json["type"].as_str().unwrap_or("unknown")
MsgType(v) == IF v = "missing" THEN "unknown" ELSE v

Frame(kind, valid, type, stream, words) ==
    [kind |-> kind, valid |-> valid, type |-> type, stream |-> stream, words |-> words]

\* what socket.recv() can yield
Frames ==
    {Frame("text", TRUE, "chat", st, w) : st \in {"true", "false", "absent"}, w \in 0..MaxWords}
    \cup {Frame("text", TRUE, t, "absent", 0) : t \in {"ping", "status", "bogus", "missing"}}
    \cup {Frame("text", FALSE, "missing", "absent", 0)}
    \cup {Frame(k, FALSE, "missing", "absent", 0) : k \in {"ping", "close", "error", "binary", "end"}}

\* send_json / socket.send: the message reaches the socket when the send succeeds
Send(log, msg, ok) == IF ok THEN Append(log, msg) ELSE log

\* the welcome message; a failed send ends the handler
ws_welcome(ok) ==
    /\ ws.pc = "welcome"
    /\ sent' = Send(sent, Msg("connected", NoRequest, 0, 0), ok)
    /\ ws' = [ws EXCEPT !.pc = IF ok THEN "recv" ELSE "closed"]
    /\ UNCHANGED <<chats, brainVars, chanVars>>

\* one turn of the message loop, up to the first send of the reply
ws_recv(f, ok) ==
    /\ ws.pc = "recv"
    /\ ws.frames < MaxFrames
    /\ LET w1 == [ws EXCEPT !.frames = @ + 1] IN
       IF f.kind \in {"close", "error", "end"}
       THEN /\ ws' = [w1 EXCEPT !.pc = "closed"]
            /\ UNCHANGED <<sent, chats>>
       ELSE IF f.kind = "ping"
       THEN /\ sent' = Send(sent, Msg("pong_frame", NoRequest, 0, 0), ok)
            /\ ws' = w1
            /\ UNCHANGED chats
       ELSE IF f.kind # "text"
       THEN /\ ws' = w1
            /\ UNCHANGED <<sent, chats>>
       ELSE IF ~f.valid
       THEN /\ sent' = Send(sent, Msg("error", NoRequest, 0, 0), ok)
            /\ ws' = w1
            /\ UNCHANGED chats
       ELSE IF MsgType(f.type) = "chat"
       THEN LET counter == ws.request_counter + 1
                rid     == RequestId(counter)
                n       == ResponseTokens(f.words)
            IN  IF StreamFlag(f.stream)
                THEN /\ sent' = Send(sent, Msg("chat_start", rid, 0, 0), ok)
                     /\ ws' = [w1 EXCEPT !.request_counter = counter,
                                         !.request_id = rid, !.i = 0, !.n_tokens = n,
                                         !.pc = IF ok THEN "chunk" ELSE "closed"]
                     /\ chats' = Append(chats, [stream |-> TRUE, n |-> n, field |-> f.stream,
                                                failed |-> ~ok, finished |-> ~ok])
                ELSE /\ sent' = Send(sent, Msg("chat_response", rid, 0, 0), ok)
                     /\ ws' = [w1 EXCEPT !.request_counter = counter,
                                         !.request_id = rid,
                                         !.pc = IF ok THEN "recv" ELSE "closed"]
                     /\ chats' = Append(chats, [stream |-> FALSE, n |-> 0, field |-> f.stream,
                                                failed |-> ~ok, finished |-> TRUE])
       ELSE IF MsgType(f.type) = "ping"
       THEN /\ sent' = Send(sent, Msg("pong", NoRequest, 0, 0), ok)
            /\ ws' = w1
            /\ UNCHANGED chats
       ELSE IF MsgType(f.type) = "status"
       THEN /\ sent' = Send(sent, Msg("status", NoRequest, 0, ws.request_counter), ok)
            /\ ws' = w1
            /\ UNCHANGED chats
       ELSE /\ sent' = Send(sent, Msg("error", NoRequest, 0, 0), ok)
            /\ ws' = w1
            /\ UNCHANGED chats
    /\ UNCHANGED <<brainVars, chanVars>>

\* one iteration of the chunk loop; a failed send leaves the loop
ws_chunk(ok) ==
    /\ ws.pc = "chunk"
    /\ sent' = Send(sent, ChunkMsg(ws.request_id, ws.i), ok)
    /\ ws' = [ws EXCEPT !.i = IF ok THEN @ + 1 ELSE @,
                        !.pc = IF ok /\ ws.i + 1 < ws.n_tokens THEN "chunk" ELSE "done"]
    /\ chats' = [chats EXCEPT ![Len(chats)].failed = @ \/ ~ok]
    /\ UNCHANGED <<brainVars, chanVars>>

\* chat_done after the chunk loop; a failed send ends the handler
ws_done(ok) ==
    /\ ws.pc = "done"
    /\ sent' = Send(sent, Msg("chat_done", ws.request_id, 0, ws.n_tokens), ok)
    /\ ws' = [ws EXCEPT !.pc = IF ok THEN "recv" ELSE "closed"]
    /\ chats' = [chats EXCEPT ![Len(chats)].failed = @ \/ ~ok,
                              ![Len(chats)].finished = TRUE]
    /\ UNCHANGED <<brainVars, chanVars>>

NextWs ==
    \/ \E ok \in BOOLEAN : ws_welcome(ok)
    \/ \E f \in Frames, ok \in BOOLEAN : ws_recv(f, ok)
    \/ \E ok \in BOOLEAN : ws_chunk(ok)
    \/ \E ok \in BOOLEAN : ws_done(ok)

-----------------------------------------------------------------------------
(* Telegram and Discord channels (TelegramChannel, DiscordChannel).        *)

RECURSIVE Pow2(_)
Pow2(n) == IF n = 0 THEN 1 ELSE 2 * Pow2(n - 1)

I64Max == Pow2(IdBits - 1) - 1

I64Min == 0 - Pow2(IdBits - 1)

\* a + b in i64 when the addition wraps around
AddI64(a, b) == ((a + b - I64Min) % Pow2(IdBits)) + I64Min

\* update ids the server hands out: the first one and the two largest of i64
UpdateIds == {1, I64Max - 1, I64Max}

Batches == UNION {[1..n -> UpdateIds] : n \in 0..MaxBatch}

\* what the getUpdates call can come back with
PollResponses ==
    {[kind |-> k, result |-> <<>>] :
        k \in {"transport_error", "bad_body", "api_error", "ok_no_result"}}
    \cup {[kind |-> "ok", result |-> b] : b \in Batches}

\* TelegramChannel::new
TelegramChannel_new == [last_update_id |-> 0, connected |-> FALSE, pc |-> "running"]

\* DiscordChannel::new
DiscordChannel_new == [connected |-> FALSE]

NoPoll ==
    [called |-> FALSE, prev_last |-> 0, offset |-> 0, ok |-> FALSE, batch |-> <<>>,
     seen |-> {}, hyp |-> TRUE]

Ids(batch) == {batch[i] : i \in 1..Len(batch)}

\* the batch is in ascending update_id order with all ids >= offset
WellFormed(batch, offset) ==
    /\ \A i \in 1..Len(batch) : batch[i] >= offset
    /\ \A i \in 1..(Len(batch) - 1) : batch[i] <= batch[i + 1]

\* `if let Some(last) = updates.last() { self.last_update_id = last.update_id; }`
LastUpdateId(cur, updates) == IF updates # <<>> THEN updates[Len(updates)] ELSE cur

\* get_updates: resp is the server's answer; on overflow of
\* last_update_id + 1 the build either panics or wraps (wraps), a choice
\* that is only open when the addition overflows
tg_get_updates(resp, wraps) ==
    /\ tg.pc = "running"
    /\ (tg.last_update_id < I64Max => wraps)
    /\ IF tg.last_update_id + 1 > I64Max /\ ~wraps
       THEN /\ tg' = [tg EXCEPT !.pc = "panicked"]
            /\ UNCHANGED <<tg_log, chan_ret>>
       ELSE LET offset  == AddI64(tg.last_update_id, 1)
                ok      == resp.kind \in {"ok", "ok_no_result"}
                updates == resp.result
            IN  /\ tg' = IF ok
                         THEN [tg EXCEPT !.last_update_id = LastUpdateId(@, updates)]
                         ELSE tg
                /\ tg_log' = [called |-> TRUE, prev_last |-> tg.last_update_id,
                              offset |-> offset, ok |-> ok,
                              batch |-> IF ok THEN updates ELSE <<>>,
                              seen |-> tg_log.seen \cup Ids(tg_log.batch),
                              hyp |-> tg_log.hyp /\ (ok => WellFormed(updates, offset))]
                /\ chan_ret' = [op |-> "get_updates", ok |-> ok]
    /\ UNCHANGED <<dc, brainVars, wsVars>>

\* a connect that marks the channel connected whatever get_me returned
ConnectedAfter_mut(cur, me_ok) == TRUE

\* connect: `self.get_me().await?; self.connected = true;`
ConnectedAfter(cur, me_ok) == IF me_ok THEN TRUE ELSE cur

\* Telegram get_me: Err on a transport error, an undecodable body, or a
\* body without result
TgGetMeOk(resp) == resp = "user"

TgGetMeResponses == {"transport_error", "bad_body", "no_result", "user"}

\* Discord get_me: Err on a transport error or an undecodable body
DcGetMeOk(resp) == resp = "user"

DcGetMeResponses == {"transport_error", "bad_body", "user"}

\* Telegram send_message: Err on a transport error, an undecodable body or ok = false
TgSendOk(resp) == resp = "ok"

TgSendResponses == {"transport_error", "bad_body", "api_error", "ok"}

\* Discord send_message: Err on a transport error or a non-success status
DcSendOk(resp) == resp = "success"

DcSendResponses == {"transport_error", "http_error", "success"}

tg_connect(resp) ==
    /\ tg.pc = "running"
    /\ tg' = [tg EXCEPT !.connected = ConnectedAfter(@, TgGetMeOk(resp))]
    /\ chan_ret' = [op |-> "connect", ok |-> TgGetMeOk(resp)]
    /\ UNCHANGED <<dc, tg_log, brainVars, wsVars>>

tg_disconnect ==
    /\ tg.pc = "running"
    /\ tg' = [tg EXCEPT !.connected = FALSE]
    /\ chan_ret' = [op |-> "disconnect", ok |-> TRUE]
    /\ UNCHANGED <<dc, tg_log, brainVars, wsVars>>

tg_send_message(resp) ==
    /\ tg.pc = "running"
    /\ chan_ret' = [op |-> "send_message", ok |-> TgSendOk(resp)]
    /\ UNCHANGED <<tg, dc, tg_log, brainVars, wsVars>>

\* send: thread_id must parse as i64, then send_message
tg_send(thread_id_parses, resp) ==
    /\ tg.pc = "running"
    /\ chan_ret' = [op |-> "send", ok |-> thread_id_parses /\ TgSendOk(resp)]
    /\ UNCHANGED <<tg, dc, tg_log, brainVars, wsVars>>

tg_listen ==
    /\ tg.pc = "running"
    /\ chan_ret' = [op |-> "listen", ok |-> TRUE]
    /\ UNCHANGED <<tg, dc, tg_log, brainVars, wsVars>>

dc_connect(resp) ==
    /\ dc' = [dc EXCEPT !.connected = ConnectedAfter(@, DcGetMeOk(resp))]
    /\ chan_ret' = [op |-> "connect", ok |-> DcGetMeOk(resp)]
    /\ UNCHANGED <<tg, tg_log, brainVars, wsVars>>

dc_disconnect ==
    /\ dc' = [dc EXCEPT !.connected = FALSE]
    /\ chan_ret' = [op |-> "disconnect", ok |-> TRUE]
    /\ UNCHANGED <<tg, tg_log, brainVars, wsVars>>

dc_send_message(resp) ==
    /\ chan_ret' = [op |-> "send_message", ok |-> DcSendOk(resp)]
    /\ UNCHANGED <<tg, dc, tg_log, brainVars, wsVars>>

dc_send(resp) ==
    /\ chan_ret' = [op |-> "send", ok |-> DcSendOk(resp)]
    /\ UNCHANGED <<tg, dc, tg_log, brainVars, wsVars>>

dc_listen ==
    /\ chan_ret' = [op |-> "listen", ok |-> TRUE]
    /\ UNCHANGED <<tg, dc, tg_log, brainVars, wsVars>>

NextChan ==
    \/ \E resp \in PollResponses, wraps \in BOOLEAN : tg_get_updates(resp, wraps)
    \/ \E resp \in TgGetMeResponses : tg_connect(resp)
    \/ tg_disconnect
    \/ \E resp \in TgSendResponses : tg_send_message(resp)
    \/ \E p \in BOOLEAN, resp \in TgSendResponses : tg_send(p, resp)
    \/ tg_listen
    \/ \E resp \in DcGetMeResponses : dc_connect(resp)
    \/ dc_disconnect
    \/ \E resp \in DcSendResponses : dc_send_message(resp)
    \/ \E resp \in DcSendResponses : dc_send(resp)
    \/ dc_listen

-----------------------------------------------------------------------------
(* BrainEngine.                                                            *)

NoModel == [loaded |-> FALSE]

DefaultMaxTokens == 256

BrainConfig_default == [max_tokens |-> DefaultMaxTokens]

\* BrainEngine::new(config)
BrainEngine_new(config) == [config |-> config, model |-> NoModel]

\* the LoadedModel that load_model builds from a readable file
LoadedModel(file) ==
    LET params == ModelParams_from_gguf(file)
        t      == BpeTokenizer_from_gguf(file)
    IN  [loaded     |-> TRUE,
         mmap_model |-> [file_size_mb |-> file.size_mb],
         params     |-> params,
         tokenizer  |-> IF t.ok THEN t.tok ELSE BpeTokenizer_fallback,
         kv_cache   |-> KvCache_new(params.n_layers, params.max_seq_len, params.n_kv_heads),
         sampler    |-> Sampler_new,
         path       |-> <<file.dir, file.name>>]

\* a load_model that stores the model it built although loading failed
load_model_on_mut(e, file) ==
    [engine |-> [e EXCEPT !.model = LoadedModel(file)],
     err    |-> MmapModel_load(file),
     warned |-> FALSE]

\* the body of load_model on engine e: the engine after the call, the
\* result, and whether the tokenizer fallback warning was logged
load_model_on(e, file) ==
    IF MmapModel_load(file) # "None"
    THEN [engine |-> e, err |-> MmapModel_load(file), warned |-> FALSE]
    ELSE [engine |-> [e EXCEPT !.model = LoadedModel(file)], err |-> "None",
          warned |-> ~BpeTokenizer_from_gguf(file).ok]

is_loaded(e) == e.model.loaded

model_info(e) ==
    IF e.model.loaded
    THEN [some |-> TRUE, file_name |-> e.model.path[2],
          size_mb |-> e.model.mmap_model.file_size_mb,
          n_layers |-> e.model.params.n_layers, n_heads |-> e.model.params.n_heads]
    ELSE [some |-> FALSE]

IdleGen ==
    [pc |-> "idle", json |-> FALSE, prompt |-> <<>>, max_tokens |-> 0,
     input_tokens |-> <<>>, output_tokens |-> <<>>, max_gen |-> 0, step |-> 0,
     fwd |-> <<>>, n_sample |-> 0, samples |-> <<>>,
     result |-> [tag |-> "None", err |-> "", text |-> <<>>]]

NoCall == [op |-> "none", err |-> "None", has_engine |-> FALSE, warned |-> FALSE]

\* a finished call as the caller keeps it
KeptCall(s) ==
    [some |-> TRUE, json |-> s.json, prompt |-> s.prompt, max_tokens |-> s.max_tokens,
     output_tokens |-> s.output_tokens, result |-> s.result]

NoKept ==
    [some |-> FALSE, json |-> FALSE, prompt |-> <<>>, max_tokens |-> 0,
     output_tokens |-> <<>>, result |-> [tag |-> "None", err |-> "", text |-> <<>>]]

Quiescent == \A g \in Gens : gen[g].pc \in {"idle", "done"}

Init ==
    /\ engine \in {BrainEngine_new([max_tokens |-> m]) : m \in 1..MaxTokens}
    /\ load_ret = NoCall
    /\ gen = [g \in Gens |-> IdleGen]
    /\ kept = NoKept
    /\ ws = [pc |-> "welcome", request_counter |-> 0, request_id |-> NoRequest,
             i |-> 0, n_tokens |-> 0, frames |-> 0]
    /\ sent = <<>>
    /\ chats = <<>>
    /\ tg = TelegramChannel_new
    /\ dc = DiscordChannel_new
    /\ tg_log = NoPoll
    /\ chan_ret = [op |-> "none", ok |-> TRUE]

\* engine.load_model(path): needs &mut self, so no generate is running
load_model(file) ==
    /\ Quiescent
    /\ LET r == load_model_on(engine, file)
       IN  /\ engine' = r.engine
           /\ load_ret' = [op |-> "load_model", err |-> r.err, has_engine |-> TRUE,
                        warned |-> r.warned]
           /\ gen' = IF r.err = "None" THEN [g \in Gens |-> IdleGen] ELSE gen
           /\ kept' = IF r.err = "None" THEN NoKept ELSE kept
           /\ UNCHANGED <<wsVars, chanVars>>

\* BrainEngine::load(path): a new engine with the default configuration,
\* returned only when load_model succeeded
load(file) ==
    /\ Quiescent
    /\ LET r == load_model_on(BrainEngine_new(BrainConfig_default), file)
       IN  /\ engine' = IF r.err = "None" THEN r.engine ELSE engine
           /\ load_ret' = [op |-> "load", err |-> r.err, has_engine |-> r.err = "None",
                        warned |-> r.warned]
           /\ gen' = IF r.err = "None" THEN [g \in Gens |-> IdleGen] ELSE gen
           /\ kept' = IF r.err = "None" THEN NoKept ELSE kept
           /\ UNCHANGED <<wsVars, chanVars>>

\* forward_token: the placeholder forward pass. It writes zero logits and
\* returns Ok; the model (its KV cache included) is only read.
forward_token(model, token, pos) ==
    [ok       |-> TRUE,
     logits   |-> [i \in 0..(model.params.vocab_size - 1) |-> 0],
     kv_cache |-> model.kv_cache]

RECURSIVE Pairs(_)
Pairs(n) == IF n = 0 THEN <<>> ELSE <<"{", "}">> \o Pairs(n - 1)

Prompts == {Pairs(n) : n \in 0..MaxPromptPairs}

\* a budget that ignores the configured max_tokens
Min_mut(a, b) == a

Min(a, b) == IF a < b THEN a ELSE b

ErrResult(msg) == [tag |-> "Err", err |-> msg, text |-> <<>>]

\* a generate that answers an unloaded engine with empty text
NotLoadedOutcome_mut == [tag |-> "Ok", err |-> "", text |-> <<>>]

\* self.model.as_ref().ok_or_else(..)?: what generate returns without a model
NotLoadedOutcome == ErrResult("Model not loaded")

\* generate(prompt, max_tokens) up to the step loop; generate_json(prompt)
\* is generate(prompt, config.max_tokens)
generate_begin(g, prompt, max_tokens, json) ==
    /\ gen[g].pc \in {"idle", "done"}
    /\ LET mt == IF json THEN engine.config.max_tokens ELSE max_tokens
       IN  IF ~engine.model.loaded
           THEN gen' = [gen EXCEPT ![g] =
                   [IdleGen EXCEPT !.pc = "done", !.json = json, !.prompt = prompt,
                                   !.max_tokens = mt,
                                   !.result = NotLoadedOutcome]]
           ELSE gen' = [gen EXCEPT ![g] =
                   [IdleGen EXCEPT !.pc = "loop", !.json = json, !.prompt = prompt,
                                   !.max_tokens = mt,
                                   !.input_tokens = <<engine.model.tokenizer.bos_id>>
                                        \o encode(engine.model.tokenizer, prompt),
                                   !.max_gen = Min(mt, engine.config.max_tokens)]]
    /\ UNCHANGED <<engine, load_ret, kept, wsVars, chanVars>>

\* a loop that samples after every forward step
ShouldSample_always(step, n) == TRUE

\* a loop that starts sampling one step late
ShouldSample_late(step, n) == step >= n

\* `if step >= input_tokens.len() - 1`: only sample after the input tokens
ShouldSample(step, n) == step >= n - 1

\* a loop that never recognises the end-of-sequence token
IsEos_mut(tok, token) == FALSE

\* `if next_token == model.tokenizer.eos_id`
IsEos(tok, token) == token = tok.eos_id

\* one iteration of `for step in 0..max_gen`
generate_step(g) ==
    LET s    == gen[g]
        n    == Len(s.input_tokens)
        nout == Len(s.output_tokens)
    IN
    /\ s.pc = "loop"
    /\ s.step < s.max_gen
    /\ IF s.step >= n /\ nout = 0
       THEN \* no token to process: break
            /\ gen' = [gen EXCEPT ![g].pc = "decode"]
            /\ UNCHANGED <<engine, load_ret, kept, wsVars, chanVars>>
       ELSE LET token == IF s.step < n THEN s.input_tokens[s.step + 1]
                         ELSE s.output_tokens[nout]
                f     == forward_token(engine.model, token, s.step)
                model1 == [engine.model EXCEPT !.kv_cache = f.kv_cache]
                fwd1  == Append(s.fwd, <<token, s.step>>)
            IN  IF ~f.ok
                THEN /\ gen' = [gen EXCEPT ![g].pc = "done", ![g].fwd = fwd1,
                                           ![g].result = ErrResult("forward")]
                     /\ engine' = [engine EXCEPT !.model = model1]
                     /\ UNCHANGED <<load_ret, kept, wsVars, chanVars>>
                ELSE IF ShouldSample(s.step, n)
                THEN LET all_tokens == s.input_tokens \o s.output_tokens
                         r   == sample(model1.sampler, f.logits, all_tokens)
                         eos == IsEos(engine.model.tokenizer, r.token)
                     IN  /\ engine' = [engine EXCEPT !.model =
                                          [model1 EXCEPT !.sampler = r.sampler]]
                         /\ gen' = [gen EXCEPT
                               ![g].fwd = fwd1,
                               ![g].n_sample = s.n_sample + 1,
                               ![g].samples = Append(s.samples,
                                         [step |-> s.step, history |-> all_tokens,
                                          token |-> r.token]),
                               ![g].step = IF eos THEN s.step ELSE s.step + 1,
                               ![g].pc = IF eos THEN "decode" ELSE "loop",
                               ![g].output_tokens =
                                         IF eos THEN s.output_tokens
                                         ELSE Append(s.output_tokens, r.token)]
                         /\ UNCHANGED <<load_ret, kept, wsVars, chanVars>>
                ELSE /\ engine' = [engine EXCEPT !.model = model1]
                     /\ gen' = [gen EXCEPT ![g].fwd = fwd1, ![g].step = s.step + 1]
                     /\ UNCHANGED <<load_ret, kept, wsVars, chanVars>>

\* after the loop: decode the output tokens and return Ok
generate_end(g) ==
    /\ \/ gen[g].pc = "decode"
       \/ gen[g].pc = "loop" /\ gen[g].step >= gen[g].max_gen
    /\ gen' = [gen EXCEPT ![g].pc = "done",
                          ![g].result = [tag |-> "Ok", err |-> "",
                                         text |-> decode(gen[g].output_tokens)]]
    /\ kept' = IF kept.some THEN kept ELSE KeptCall(gen'[g])
    /\ UNCHANGED <<engine, load_ret, wsVars, chanVars>>

NextBrain ==
    \/ \E f \in Files : load_model(f)
    \/ \E f \in Files : load(f)
    \/ \E p \in Prompts, m \in 0..MaxTokens, j \in BOOLEAN : generate_begin(1, p, m, j)
    \/ generate_step(1)
    \/ generate_end(1)

SpecBrain == Init /\ [][NextBrain]_vars

\* two callers generating at the same time on one engine
NextConc ==
    \/ \E f \in {f \in Files : f.dir = "full"} : load_model(f)
    \/ \E g \in Gens, p \in Prompts : generate_begin(g, p, MaxTokens, FALSE)
    \/ \E g \in Gens : generate_step(g)
    \/ \E g \in Gens : generate_end(g)

SpecConc == Init /\ [][NextConc]_vars

\* one WebSocket connection of the gateway
SpecWs == Init /\ [][NextWs]_vars

\* one Telegram channel and one Discord channel
SpecChan == Init /\ [][NextChan]_vars
-----------------------------------------------------------------------------
(* Grammar engine (grammar): the automaton of nested empty JSON objects.   *)
(* The state is the nesting depth, or rejected.                             *)

GrammarStart == [rejected |-> FALSE, depth |-> 0]

GrammarReject == [rejected |-> TRUE, depth |-> 0]

GrammarStep(state, token) ==
    IF state.rejected THEN GrammarReject
    ELSE IF token = 3 THEN [state EXCEPT !.depth = @ + 1]
    ELSE IF token = 4
         THEN (IF state.depth > 0 THEN [state EXCEPT !.depth = @ - 1] ELSE GrammarReject)
    ELSE IF token = MergedId THEN state
    ELSE GrammarReject

RECURSIVE GrammarRun(_, _)
GrammarRun(state, tokens) ==
    IF tokens = <<>> THEN state
    ELSE GrammarRun(GrammarStep(state, Head(tokens)), Tail(tokens))

\* what a caller can ask an engine: is_loaded(), config(), model_info()
PublicView(e) == [is_loaded |-> is_loaded(e), config |-> e.config, model_info |-> model_info(e)]

-----------------------------------------------------------------------------
(* Properties of the engine.                                               *)

InFlight(g) == gen[g].pc \in {"loop", "decode"}

\* C1: a generate or generate_json call on an engine without a loaded model
\* ends at once with the error "Model not loaded": no forward step, no
\* sampler call, no text.
C1_NotLoadedIsReported ==
    \A g \in Gens :
        (gen[g].pc # "idle" /\ ~is_loaded(engine)) =>
            /\ gen[g].pc = "done"
            /\ gen[g].result = ErrResult("Model not loaded")
            /\ gen[g].fwd = <<>>
            /\ gen[g].n_sample = 0
            /\ gen[g].output_tokens = <<>>

C1_Witness ==
    /\ ~is_loaded(engine)
    /\ gen[1].pc = "done"
    /\ gen[1].json
    /\ gen[1].prompt # <<>>

\* C2: a load_model call whose file cannot be opened, mapped or parsed
\* returns the error and leaves the engine (its model slot, hence
\* is_loaded()) as it was; a failing BrainEngine::load returns no engine.
C2_FailedLoadKeepsSlot ==
    [][\A f \in Files :
          /\ (load_model(f) /\ MmapModel_load(f) # "None") =>
                /\ load_ret'.err = MmapModel_load(f)
                /\ engine'.model = engine.model
                /\ is_loaded(engine') = is_loaded(engine)
          /\ (load(f) /\ MmapModel_load(f) # "None") =>
                /\ load_ret'.err = MmapModel_load(f)
                /\ ~load_ret'.has_engine
                /\ engine' = engine]_vars

C2_Witness ==
    /\ load_ret.op = "load_model"
    /\ load_ret.err = "FormatError"
    /\ ~is_loaded(engine)

\* C3: in a generation the KV cache cursor is 0 before the first forward
\* step and equals p + 1 after the forward step for position p, never
\* above max_seq_len.
C3_CursorFollowsPosition ==
    \A g \in Gens :
        (InFlight(g) \/ (gen[g].pc = "done" /\ gen[g].result.tag = "Ok")) =>
            /\ engine.model.kv_cache.cursor = Len(gen[g].fwd)
            /\ \A i \in 1..Len(gen[g].fwd) : gen[g].fwd[i][2] = i - 1
            /\ engine.model.kv_cache.cursor <= engine.model.params.max_seq_len

\* C4: no generation runs a forward step at a position >= max_seq_len.
C4_NoForwardPastContext ==
    \A g \in Gens :
        \A i \in 1..Len(gen[g].fwd) :
            gen[g].fwd[i][2] < engine.model.params.max_seq_len

\* C5: while a generation is in flight, the KV cache and the sampler state
\* it works with are changed by no other generation.
C5_SessionOwnsCacheAndSampler ==
    [][\A g \in Gens :
          (gen[g].pc = "loop" /\ gen'[g] = gen[g]) =>
              /\ engine'.model.sampler = engine.model.sampler
              /\ engine'.model.kv_cache = engine.model.kv_cache]_vars

\* C6: a model whose n_heads is not a multiple of n_kv_heads is never loaded.
C6_HeadsDivideEvenly ==
    is_loaded(engine) =>
        engine.model.params.n_heads % engine.model.params.n_kv_heads = 0

\* C7: an engine loaded with the fallback tokenizer answers some query of
\* the public interface differently from an engine loaded with the file's
\* own tokenizer.
C7_FallbackIsQueryable ==
    \A f \in Files :
        LET r == load_model_on(engine, f)
        IN  (is_loaded(engine) /\ load_ret.err = "None" /\ r.err = "None"
             /\ r.warned # load_ret.warned) =>
                PublicView(r.engine) # PublicView(engine)

\* C8: the output tokens of a generate_json call never drive the grammar
\* automaton into its rejecting state.
C8_JsonOutputKeepsGrammar ==
    \A g \in Gens :
        gen[g].json => ~GrammarRun(GrammarStart, gen[g].output_tokens).rejected

\* C9: a finished generate call returns the same output tokens as an
\* earlier call on the same loaded engine with the same prompt and the
\* same max_tokens.
C9_SameCallSameOutput ==
    \A g \in Gens :
        (/\ gen[g].pc = "done"
         /\ gen[g].result.tag = "Ok"
         /\ kept.some
         /\ gen[g].json = kept.json
         /\ gen[g].prompt = kept.prompt
         /\ gen[g].max_tokens = kept.max_tokens) =>
            gen[g].output_tokens = kept.output_tokens
-----------------------------------------------------------------------------
(* Properties of the WebSocket handler.                                    *)

\* positions in the log of sent messages that carry request r's id
ReqPos(r) == {k \in 1..Len(sent) : sent[k].request_id = RequestId(r)}

SetMin(S) == CHOOSE x \in S : \A y \in S : x <= y

SetMax(S) == CHOOSE x \in S : \A y \in S : y <= x

\* C10: the messages sent for a streaming chat request are, in this order
\* and with nothing else in between, one chat_start, chat_chunk messages
\* with index 0, 1, 2, ... and one chat_done that nothing of the request
\* follows; a request handled without a failed send got all of them.
C10_StreamIsOrdered ==
    \A r \in 1..Len(chats) :
        chats[r].stream =>
            LET P == ReqPos(r) IN
            /\ P # {} =>
                 LET lo == SetMin(P)
                     hi == SetMax(P)
                 IN  /\ P = lo..hi
                     /\ sent[lo].type = "chat_start"
                     /\ \A k \in (lo + 1)..hi :
                           \/ sent[k].type = "chat_chunk" /\ sent[k].index = k - lo - 1
                           \/ sent[k].type = "chat_done" /\ k = hi
            /\ (chats[r].finished /\ ~chats[r].failed) =>
                 /\ P # {}
                 /\ sent[SetMax(P)].type = "chat_done"
                 /\ Cardinality(P) = chats[r].n + 2

C10_Witness ==
    /\ Len(chats) >= 2
    /\ chats[1].stream /\ chats[1].finished /\ ~chats[1].failed
    /\ chats[2].stream
    /\ ws.pc = "chunk"
    /\ ws.i >= 2

\* C11: for a chat message whose stream field is false or absent at most
\* one message carries the request's id, a chat_response; it is sent
\* unless the send fails, and no chat_start, chat_chunk or chat_done is.
C11_PlainChatGetsOneResponse ==
    \A r \in 1..Len(chats) :
        chats[r].field \in {"false", "absent"} =>
            LET P == {k \in 1..Len(sent) : sent[k].request_id = <<"req_", r>>} IN
            /\ Cardinality(P) <= 1
            /\ \A k \in P : sent[k].type = "chat_response"
            /\ ~chats[r].failed => Cardinality(P) = 1

C11_Witness ==
    /\ Len(chats) = 2
    /\ chats[1].field = "absent" /\ ~chats[1].failed
    /\ chats[2].field = "false" /\ ~chats[2].failed
    /\ ws.pc = "recv"

\* C16: the total_tokens of a chat_done that was sent is the number of
\* chat_chunk messages sent for its request before it, which carry the
\* indices 0 .. total_tokens - 1.
C16_DoneCountsChunks ==
    \A k \in 1..Len(sent) :
        sent[k].type = "chat_done" =>
            LET C == {j \in 1..(k - 1) : /\ sent[j].type = "chat_chunk"
                                         /\ sent[j].request_id = sent[k].request_id}
            IN  /\ Cardinality(C) = sent[k].total
                /\ {sent[j].index : j \in C} = 0..(sent[k].total - 1)

\* C17: the request counter is the number of chat messages received, the
\* k-th of them has the request id req_k, the ids of the messages sent
\* never decrease along the log, and a status reply reports the number of
\* chat messages received before it.
C17_RequestIdsCount ==
    /\ ws.request_counter = Len(chats)
    /\ Len(chats) > 0 => ws.request_id = <<"req_", Len(chats)>>
    /\ \A k \in 1..Len(sent) :
          LET before == {sent[j].request_id[2] : j \in 1..(k - 1)} IN
          /\ sent[k].request_id[1] \in {"", "req_"}
          /\ sent[k].request_id[1] = "req_" =>
                /\ sent[k].request_id[2] \in 1..Len(chats)
                /\ \A n \in before : n <= sent[k].request_id[2]
                /\ sent[k].type \in {"chat_start", "chat_response"} =>
                      sent[k].request_id[2] \notin before
          /\ sent[k].type = "status" =>
                sent[k].total = Cardinality(before \ {0})

C17_Witness ==
    /\ Len(sent) = 3
    /\ sent[2].type = "chat_response"
    /\ sent[3].type = "status"
    /\ sent[3].total = 1

\* C18: a text message that is not JSON, or whose type is not chat, ping
\* or status, is answered with one error message (none when the send
\* fails); the handler keeps receiving and the request counter is unchanged.
C18_BadMessageIsAnswered ==
    [][\A f \in Frames, ok \in BOOLEAN :
          (/\ ws_recv(f, ok)
           /\ f.kind = "text"
           /\ (~f.valid \/ f.type \in {"bogus", "missing"})) =>
              /\ sent' = IF ok THEN Append(sent, Msg("error", NoRequest, 0, 0)) ELSE sent
              /\ ws'.pc = "recv"
              /\ ws'.request_counter = ws.request_counter
              /\ chats' = chats]_vars

C18_Witness ==
    /\ Len(sent) = 3
    /\ sent[2].type = "error"
    /\ sent[3].type = "chat_response"
    /\ sent[3].request_id = <<"req_", 1>>
    /\ ws.pc = "recv"

-----------------------------------------------------------------------------
(* Properties of the step loop of generate.                                *)

\* the tokens the sampler returned in its first k calls
Sampled(s, k) == [i \in 1..k |-> s.samples[i].token]

Max0(x) == IF x > 0 THEN x ELSE 0

\* C12: the end-of-sequence id is never an output token; once the sampler
\* returned it, no forward step and no sampling follows, and the call
\* returns Ok with the text of the tokens emitted before it.
C12_EosStopsAtOnce ==
    \A g \in Gens :
        LET s == gen[g]
            k == Len(s.samples)
        IN  /\ \A i \in 1..Len(s.output_tokens) : s.output_tokens[i] # EosId
            /\ \A i \in 1..(k - 1) : s.samples[i].token # EosId
            /\ (k > 0 /\ s.samples[k].token = EosId) =>
                  /\ s.pc \in {"decode", "done"}
                  /\ Len(s.fwd) = s.samples[k].step + 1
                  /\ s.output_tokens = Sampled(s, k - 1)
                  /\ s.pc = "done" =>
                        s.result = [tag |-> "Ok", err |-> "",
                                    text |-> decode(Sampled(s, k - 1))]

C12_Witness ==
    /\ gen[1].pc = "done"
    /\ Len(gen[1].samples) >= 2
    /\ gen[1].samples[Len(gen[1].samples)].token = EosId
    /\ gen[1].result.text # <<>>

\* C13: the input tokens are BOS followed by the encoded prompt; forward
\* step p < n processes input token p, in order, and the sampler is first
\* called at step n - 1, after the forward step of the last input token.
C13_PromptBeforeSampling ==
    \A g \in Gens :
        LET s == gen[g]
            n == Len(s.input_tokens)
        IN  s.input_tokens # <<>> =>
              /\ s.input_tokens = <<BosId>> \o encode(engine.model.tokenizer, s.prompt)
              /\ \A i \in 1..Len(s.fwd) : i <= n => s.fwd[i] = <<s.input_tokens[i], i - 1>>
              /\ \A j \in 1..Len(s.samples) : s.samples[j].step >= n - 1
              /\ s.samples # <<>> =>
                    /\ s.samples[1].step = n - 1
                    /\ Len(s.fwd) >= n

C13_Witness ==
    /\ gen[1].pc = "done"
    /\ Len(gen[1].input_tokens) = 3
    /\ Len(gen[1].samples) >= 2

\* C14: max_gen = min(max_tokens, config.max_tokens) bounds the forward
\* steps; with n input tokens at most max(0, max_gen - n + 1) tokens are
\* returned, exactly as many when EOS was not sampled, and none, without a
\* sampler call, when n > max_gen.
C14_BudgetCountsForwardSteps ==
    \A g \in Gens :
        LET s   == gen[g]
            n   == Len(s.input_tokens)
            cap == Max0(s.max_gen - n + 1)
        IN  s.input_tokens # <<>> =>
              /\ s.max_gen = IF s.max_tokens < engine.config.max_tokens
                             THEN s.max_tokens ELSE engine.config.max_tokens
              /\ Len(s.fwd) <= s.max_gen
              /\ Len(s.output_tokens) <= cap
              /\ (s.pc = "done" /\ \A j \in 1..Len(s.samples) : s.samples[j].token # EosId) =>
                    Len(s.output_tokens) = cap
              /\ n > s.max_gen =>
                    /\ s.samples = <<>> /\ s.n_sample = 0
                    /\ s.pc = "done" => s.result = [tag |-> "Ok", err |-> "", text |-> <<>>]

C14_Witness ==
    /\ gen[1].pc = "done"
    /\ Len(gen[1].input_tokens) > gen[1].max_gen
    /\ gen[1].max_gen >= 1
    /\ gen[1].max_tokens > engine.config.max_tokens

\* C15: past the prompt the forward step processes the token sampled at
\* the step before it, the sampler is given the input tokens followed by
\* the tokens emitted so far, and the loop never finds itself without a
\* token to process.
C15_FeedsBackLastSample ==
    \A g \in Gens :
        LET s == gen[g]
            n == Len(s.input_tokens)
        IN  s.input_tokens # <<>> =>
              /\ ~(s.pc = "loop" /\ s.step < s.max_gen /\ s.step >= n
                   /\ s.output_tokens = <<>>)
              /\ \A i \in (n + 1)..Len(s.fwd) :
                    /\ s.fwd[i] = <<s.samples[i - n].token, i - 1>>
                    /\ s.samples[i - n].step = i - 2
              /\ \A j \in 1..Len(s.samples) :
                    s.samples[j].history = s.input_tokens \o Sampled(s, j - 1)

C15_Witness ==
    /\ gen[1].pc = "done"
    /\ Len(gen[1].fwd) >= Len(gen[1].input_tokens) + 2
    /\ Len(gen[1].input_tokens) >= 2

\* C19: every getUpdates request asks for offset = last_update_id + 1; a
\* successful non-empty batch sets last_update_id to the id of its last
\* update, a failed call or an empty batch leaves it unchanged; and while the
\* server has returned every batch in ascending order with all ids >= the
\* requested offset, last_update_id has not decreased and no update of the
\* latest batch was returned by an earlier successful call.
C19_OffsetFollowsLastUpdate ==
    tg_log.called =>
        /\ tg_log.offset = tg_log.prev_last + 1
        /\ tg.last_update_id =
               IF tg_log.ok /\ tg_log.batch # <<>>
               THEN tg_log.batch[Len(tg_log.batch)]
               ELSE tg_log.prev_last
        /\ tg_log.hyp =>
               /\ tg.last_update_id >= tg_log.prev_last
               /\ Ids(tg_log.batch) \cap tg_log.seen = {}

\* a step of the Telegram channel's connect, whatever get_me answered
TgConnectStep == \E resp \in TgGetMeResponses : tg_connect(resp)

\* a step of the Discord channel's connect, whatever get_me answered
DcConnectStep == \E resp \in DcGetMeResponses : dc_connect(resp)

C20_Step ==
    /\ \A resp \in TgGetMeResponses : tg_connect(resp) =>
           /\ chan_ret'.ok = (resp = "user")
           /\ tg'.connected = IF resp = "user" THEN TRUE ELSE tg.connected
    /\ \A resp \in DcGetMeResponses : dc_connect(resp) =>
           /\ chan_ret'.ok = (resp = "user")
           /\ dc'.connected = IF resp = "user" THEN TRUE ELSE dc.connected
    /\ tg_disconnect => ~tg'.connected /\ chan_ret'.ok
    /\ dc_disconnect => ~dc'.connected /\ chan_ret'.ok
    /\ (~TgConnectStep /\ ~tg_disconnect) => tg'.connected = tg.connected
    /\ (~DcConnectStep /\ ~dc_disconnect) => dc'.connected = dc.connected
    /\ (~tg.connected /\ tg'.connected) => tg_connect("user")
    /\ (~dc.connected /\ dc'.connected) => dc_connect("user")

\* C20: for both channels is_connected() is false after construction, becomes
\* true only in a connect whose get_me succeeds, is unchanged by a connect
\* that fails, is false after every disconnect (which returns Ok), and is not
\* changed by send, send_message, get_updates or listen.
C20_ConnectedFollowsConnect ==
    /\ ~tg.connected /\ ~dc.connected
    /\ [][C20_Step]_vars

\* both channels are connected and the latest operation was a connect that failed
C20_Witness ==
    /\ tg.connected
    /\ dc.connected
    /\ chan_ret.op = "connect"
    /\ ~chan_ret.ok

====
